---- MODULE Spec2Model ----
(***************************************************************************)
(* A model of the two n8n nodes of n8n-nodes-text-to-json:                 *)
(*   TextToJson.execute  (decode: text -> records, count-driven nesting)   *)
(*   JsonToText.execute  (encode: value tree -> fixed-width lines)         *)
(*                                                                         *)
(* JavaScript strings are sequences of one-character strings.  JSON values *)
(* are records tagged by their type t; an object is a function from keys   *)
(* to such values.  Array indices and cursors are 0-based as in the        *)
(* source, so lines[idx] of the source is lines[idx + 1] here.             *)
(***************************************************************************)
EXTENDS Integers, Sequences, FiniteSets, TLC

\* Bound of the model: the longest input text, in lines.
MaxLines == 3

-----------------------------------------------------------------------------
(* JSON values *)

Str(s)    == [t |-> "str", s |-> s]
Num(n)    == [t |-> "num", n |-> n]
Bool(b)   == [t |-> "bool", b |-> b]
Arr(a)    == [t |-> "arr", a |-> a]
Obj(o)    == [t |-> "obj", o |-> o]
NaN       == [t |-> "nan"]
Null      == [t |-> "null"]
Undefined == [t |-> "undef"]

\* An object with no own property.
EmptyObj == [k \in {} |-> Undefined]

\* obj[key] = val
Put(obj, key, val) ==
    [k \in (DOMAIN obj) \cup {key} |-> IF k = key THEN val ELSE obj[k]]

\* obj[key]
Get(obj, key) == IF key \in DOMAIN obj THEN obj[key] ELSE Undefined

\* const { __recordType, ...rest } = json
Rest(obj) == [k \in (DOMAIN obj) \ {"__recordType"} |-> obj[k]]

-----------------------------------------------------------------------------
(* JavaScript string primitives *)

Whitespace == {" ", "\t", "\r", "\n"}
Digits == <<"0", "1", "2", "3", "4", "5", "6", "7", "8", "9">>
DigitSet == {Digits[i] : i \in 1..10}

DigitVal(c) == (CHOOSE i \in 1..10 : Digits[i] = c) - 1

Min(a, b) == IF a < b THEN a ELSE b
Max(a, b) == IF a > b THEN a ELSE b

\* String.prototype.trim
RECURSIVE TrimStart(_)
TrimStart(s) ==
    IF s # <<>> /\ Head(s) \in Whitespace THEN TrimStart(Tail(s)) ELSE s

RECURSIVE TrimEnd(_)
TrimEnd(s) ==
    IF s # <<>> /\ s[Len(s)] \in Whitespace
    THEN TrimEnd(SubSeq(s, 1, Len(s) - 1))
    ELSE s

Trim(s) == TrimEnd(TrimStart(s))

\* String.prototype.substring(start, end), taken for substr: the second
\* argument is an end position, not a length.
SubstringUntil(s, start, length) ==
    SubSeq(s, Min(start, length) + 1, Min(Len(s), Max(start, length)))

\* String.prototype.substr(start, length), for start >= 0
Substr(s, start, length) ==
    IF start >= Len(s) \/ length <= 0
    THEN <<>>
    ELSE SubSeq(s, start + 1, Min(Len(s), start + length))

\* String.prototype.slice(0, end)
Slice(s, end) ==
    IF end >= 0
    THEN SubSeq(s, 1, Min(Len(s), end))
    ELSE SubSeq(s, 1, Max(0, Len(s) + end))

\* String.prototype.repeat(count), count >= 0
RECURSIVE Repeat(_, _)
Repeat(s, count) == IF count <= 0 THEN <<>> ELSE s \o Repeat(s, count - 1)

\* The value of a string of decimal digits.
RECURSIVE DigitsVal(_)
DigitsVal(s) ==
    IF s = <<>> THEN 0
    ELSE 10 * DigitsVal(SubSeq(s, 1, Len(s) - 1)) + DigitVal(s[Len(s)])

\* The decimal digits of a natural number.
RECURSIVE NatStr(_)
NatStr(n) ==
    IF n < 10 THEN <<Digits[n + 1]>>
    ELSE NatStr(n \div 10) \o <<Digits[(n % 10) + 1]>>

IntStr(n) == IF n < 0 THEN <<"-">> \o NatStr(0 - n) ELSE NatStr(n)

\* The longest prefix of s made of decimal digits.
RECURSIVE DigitPrefix(_)
DigitPrefix(s) ==
    IF s # <<>> /\ Head(s) \in DigitSet
    THEN <<Head(s)>> \o DigitPrefix(Tail(s))
    ELSE <<>>

AllDigits(s) == s # <<>> /\ \A i \in 1..Len(s) : s[i] \in DigitSet

\* Number(s), over strings of digits, letters, blanks and "-": the empty
\* (or blank) string is 0, a signed run of digits its value, the rest NaN.
NumberOf(s) ==
    LET u == Trim(s) IN
    IF u = <<>> THEN Num(0)
    ELSE IF AllDigits(u) THEN Num(DigitsVal(u))
    ELSE IF Head(u) = "-" /\ AllDigits(Tail(u)) THEN Num(0 - DigitsVal(Tail(u)))
    ELSE NaN

\* value.replace(/^0+(?!$)/, ''): leading zeros go, the last character stays.
RECURSIVE StripZeros(_)
StripZeros(s) ==
    IF Len(s) > 1 /\ Head(s) = "0" THEN StripZeros(Tail(s)) ELSE s

\* ['true', '1', 'yes'].includes(value.toLowerCase())
Truthy == {<<"t", "r", "u", "e">>, <<"1">>, <<"y", "e", "s">>}

RECURSIVE JoinStr(_, _)
\* Array.prototype.join over strings
JoinStr(ss, sep) ==
    IF ss = <<>> THEN <<>>
    ELSE IF Len(ss) = 1 THEN ss[1]
    ELSE ss[1] \o sep \o JoinStr(Tail(ss), sep)

\* String(value): the text JavaScript gives a value.
RECURSIVE ToStr(_)
ToStr(x) ==
    CASE x.t = "str"   -> x.s
      [] x.t = "num"   -> IntStr(x.n)
      [] x.t = "nan"   -> <<"N", "a", "N">>
      [] x.t = "bool"  -> IF x.b THEN <<"t", "r", "u", "e">>
                                 ELSE <<"f", "a", "l", "s", "e">>
      [] x.t = "arr"   -> JoinStr([i \in 1..Len(x.a) |->
                              IF x.a[i].t \in {"null", "undef"} THEN <<>>
                              ELSE ToStr(x.a[i])], <<",">>)
      [] x.t = "obj"   -> <<"[", "o", "b", "j", "e", "c", "t", " ",
                            "O", "b", "j", "e", "c", "t", "]">>
      [] x.t = "null"  -> <<"n", "u", "l", "l">>
      [] x.t = "undef" -> <<"u", "n", "d", "e", "f", "i", "n", "e", "d">>

\* parseInt(value, 10) with 1 in place of NaN.
ParseIntOr1(x) ==
    LET s  == TrimStart(ToStr(x))
        ng == s # <<>> /\ Head(s) = "-"
        d  == DigitPrefix(IF ng THEN Tail(s) ELSE s)
    IN  IF d = <<>> THEN 1
        ELSE IF ng THEN 0 - DigitsVal(d) ELSE DigitsVal(d)

\* parseInt(value, 10) || 0
ParseIntOr0(x) ==
    LET s  == TrimStart(ToStr(x))
        ng == s # <<>> /\ Head(s) = "-"
        d  == DigitPrefix(IF ng THEN Tail(s) ELSE s)
    IN  IF d = <<>> THEN 0
        ELSE IF ng THEN 0 - DigitsVal(d) ELSE DigitsVal(d)

-----------------------------------------------------------------------------
(* TextToJson: schema *)

\* One entry of r.fields.field; every modelled field is of type 'fixed'.
Field(name, start, length, outputType) ==
    [name |-> name, type |-> "fixed", start |-> start, length |-> length,
     outputType |-> outputType]

\* One entry of r.childDefinitions.child; childrenFieldName "" is the default.
Child(countField, childRecordType, childrenFieldName) ==
    [countField |-> countField, childRecordType |-> childRecordType,
     childrenFieldName |-> childrenFieldName]

\* One raw record definition of the parameter recordDefs.record.
RawDef(recordType, matcher, fields, children) ==
    [recordType |-> recordType, matcher |-> matcher, fields |-> fields,
     childDefinitions |-> children]

\* new RegExp(src) throws on an unbalanced "(": the patterns of the model are
\* literals, optionally anchored with "^", and literals with a stray "(".
Compiles(src) == \A i \in 1..Len(src) : src[i] # "("

\* The fallback without the '^' in front of the escaped text.
CompileMatcherUnanchored(src) ==
    IF Compiles(src)
    THEN IF src # <<>> /\ Head(src) = "^"
         THEN [anchored |-> TRUE, lit |-> Tail(src)]
         ELSE [anchored |-> FALSE, lit |-> src]
    ELSE [anchored |-> FALSE, lit |-> src]

\* try { new RegExp(r.matcher) } catch { new RegExp('^' + escaped) }
CompileMatcher(src) ==
    IF Compiles(src)
    THEN IF src # <<>> /\ Head(src) = "^"
         THEN [anchored |-> TRUE, lit |-> Tail(src)]
         ELSE [anchored |-> FALSE, lit |-> src]
    ELSE [anchored |-> TRUE, lit |-> src]

IsPrefix(p, s) == Len(p) <= Len(s) /\ SubSeq(s, 1, Len(p)) = p

Contains(p, s) ==
    \E i \in 0..(Len(s) - Len(p)) : SubSeq(s, i + 1, i + Len(p)) = p

\* d.matcher.test(line)
Test(matcher, line) ==
    IF matcher.anchored THEN IsPrefix(matcher.lit, line)
    ELSE Contains(matcher.lit, line)

\* recordDefsRaw.map(...): the typed RecordDefinition objects.
BuildDefs(raw) ==
    [i \in 1..Len(raw) |->
        [recordType       |-> raw[i].recordType,
         matcher          |-> CompileMatcher(raw[i].matcher),
         fields           |-> raw[i].fields,
         childDefinitions |-> raw[i].childDefinitions]]

\* The record types that are keys of recordDefsMap.
MapKeys(defs) == {defs[i].recordType : i \in 1..Len(defs)}

\* recordDefsMap[rt], for rt a key: Object.fromEntries keeps the last entry
\* of a repeated key.
MapLookup(defs, rt) ==
    defs[CHOOSE i \in 1..Len(defs) :
            /\ defs[i].recordType = rt
            /\ \A j \in (i + 1)..Len(defs) : defs[j].recordType # rt]

\* recordDefs.find((d) => d.matcher.test(line)): 0 when there is none.
\* The search that keeps the last definition whose matcher accepts the line.
FindDefLast(defs, line) ==
    IF \E i \in 1..Len(defs) : Test(defs[i].matcher, line)
    THEN CHOOSE i \in 1..Len(defs) :
            /\ Test(defs[i].matcher, line)
            /\ \A j \in (i + 1)..Len(defs) : ~Test(defs[j].matcher, line)
    ELSE 0

FindDef(defs, line) ==
    IF \E i \in 1..Len(defs) : Test(defs[i].matcher, line)
    THEN CHOOSE i \in 1..Len(defs) :
            /\ Test(defs[i].matcher, line)
            /\ \A j \in 1..(i - 1) : ~Test(defs[j].matcher, line)
    ELSE 0

-----------------------------------------------------------------------------
(* TextToJson: lines and fields *)

RECURSIVE SplitAcc(_, _, _)
SplitAcc(s, cur, acc) ==
    IF s = <<>> THEN Append(acc, cur)
    ELSE IF Head(s) = "\n" THEN SplitAcc(Tail(s), <<>>, Append(acc, cur))
    ELSE IF Head(s) = "\r" /\ Len(s) > 1 /\ s[2] = "\n"
         THEN SplitAcc(Tail(Tail(s)), <<>>, Append(acc, cur))
    ELSE SplitAcc(Tail(s), Append(cur, Head(s)), acc)

\* fileContent.split(/\r?\n/)
SplitLines(s) == SplitAcc(s, <<>>, <<>>)

NonBlank(l) == Len(Trim(l)) > 0

\* .split(/\r?\n/).filter((l) => l.trim().length > 0)
FilteredLines(content) == SelectSeq(SplitLines(content), NonBlank)

\* value.toLowerCase(), over the letters of the model
LowerChar(c) ==
    CASE c = "P" -> "p" [] c = "C" -> "c" [] c = "Z" -> "z"
      [] c = "R" -> "r" [] c = "G" -> "g" [] OTHER -> c

Lower(s) == [i \in 1..Len(s) |-> LowerChar(s[i])]

\* A Date object: a month of a year, or the Invalid Date.
Date(year, month) == [t |-> "date", valid |-> TRUE, year |-> year, month |-> month]
InvalidDate == [t |-> "date", valid |-> FALSE, year |-> 0, month |-> 0]

\* new Date(value), over the texts of the model, which are no ISO dates: the
\* engine's fallback parser reads a lone number from 1 to 12 as that month of
\* 2001; a text without a digit, the empty one included, is no date.
DateOf(value) ==
    LET u == Trim(value)
    IN  IF AllDigits(u) /\ DigitsVal(u) \in 1..12
        THEN Date(2001, DigitsVal(u))
        ELSE InvalidDate

\* A JSON integer: digits without a leading zero, with or without a sign.
JsonInt(u) ==
    LET d == IF u # <<>> /\ Head(u) = "-" THEN Tail(u) ELSE u
    IN  AllDigits(d) /\ (Len(d) = 1 \/ Head(d) # "0")

\* try { return JSON.parse(value) } catch { return value }, over texts of
\* letters, digits, blanks and "-": integers and the three literals parse,
\* anything else is a SyntaxError.
JsonOrRaw(value) ==
    LET u == Trim(value)
    IN  IF JsonInt(u) THEN NumberOf(u)
        ELSE IF u = <<"t", "r", "u", "e">> THEN Bool(TRUE)
        ELSE IF u = <<"f", "a", "l", "s", "e">> THEN Bool(FALSE)
        ELSE IF u = <<"n", "u", "l", "l">> THEN Null
        ELSE Str(value)

\* castValue(value, type)
CastValue(value, type) ==
    CASE type = "number"  -> NumberOf(StripZeros(value))
      [] type = "boolean" -> Bool(Lower(value) \in Truthy)
      [] type = "date"    -> DateOf(value)
      [] type = "json"    -> JsonOrRaw(value)
      [] OTHER            -> Str(value)

\* The value parseLine casts out of the line for one field:
\* raw = line.substr(start, length).trim(), then castValue(raw, outputType).
FieldValue(field, line) ==
    CHOOSE value \in {CastValue(raw, field.outputType) :
                         raw \in {Trim(Substr(line, field.start, field.length))}} :
        TRUE

\* for (const field of def.fields) obj[field.name] = castValue(raw, ...):
\* a name that several fields share keeps the value of the last of them.
ParseFields(fields, line, obj) ==
    [k \in (DOMAIN obj) \cup {fields[i].name : i \in 1..Len(fields)} |->
        IF \E i \in 1..Len(fields) : fields[i].name = k
        THEN FieldValue(fields[CHOOSE i \in 1..Len(fields) :
                                  /\ fields[i].name = k
                                  /\ \A j \in (i + 1)..Len(fields) :
                                        fields[j].name # k],
                        line)
        ELSE obj[k]]

\* The decoded fields alone, without the tag of the record type.
ParseLineUntagged(def, line) == ParseFields(def.fields, line, EmptyObj)

\* parseLine(def, line)
ParseLine(def, line) ==
    Put(ParseFields(def.fields, line, EmptyObj),
        "__recordType", Str(<<def.recordType>>))

-----------------------------------------------------------------------------
(* JsonToText: schema, path lookup and formatRecord *)

\* One entry of r.fields.field of the JSON to Text node.
EncField(valueType, jsonKey, fixedValue, length, padChar, padDir) ==
    [valueType |-> valueType, jsonKey |-> jsonKey, fixedValue |-> fixedValue,
     length |-> length, padChar |-> padChar, padDirection |-> padDir,
     variableLength |-> FALSE, prefix |-> <<"[">>, suffix |-> <<"]">>]

\* The same with the Variable Length switch on.
VarField(jsonKey, prefix, suffix) ==
    [valueType |-> "jsonKey", jsonKey |-> jsonKey, fixedValue |-> <<>>,
     length |-> 0, padChar |-> <<" ">>, padDirection |-> "right",
     variableLength |-> TRUE, prefix |-> prefix, suffix |-> suffix]

EncChild(childrenFieldName, childRecordType) ==
    [childrenFieldName |-> childrenFieldName, childRecordType |-> childRecordType]

EncDef(recordType, jsonPath, fields, children) ==
    [recordType |-> recordType, jsonPath |-> jsonPath, fields |-> fields,
     childDefinitions |-> children]

\* recordDefsRaw.map(...) of the JSON to Text node
BuildEncDefs(raw) ==
    [i \in 1..Len(raw) |->
        [recordType |-> raw[i].recordType,
         jsonPath   |-> raw[i].jsonPath,
         fields     |-> [k \in 1..Len(raw[i].fields) |->
             LET f == raw[i].fields[k]
             IN  [valueType |-> f.valueType, jsonKey |-> f.jsonKey,
                  fixedValue |-> f.fixedValue, length |-> f.length,
                  padChar |-> f.padChar, padDir |-> f.padDirection,
                  variableLength |-> f.variableLength,
                  prefix |-> f.prefix, suffix |-> f.suffix]],
         childDefinitions |-> raw[i].childDefinitions]]

\* The property name a string of characters spells.
RECURSIVE KeyOf(_)
KeyOf(s) == IF s = <<>> THEN "" ELSE Head(s) \o KeyOf(Tail(s))

RECURSIVE SplitDotAcc(_, _, _)
SplitDotAcc(s, cur, acc) ==
    IF s = <<>> THEN Append(acc, cur)
    ELSE IF Head(s) = "." THEN SplitDotAcc(Tail(s), <<>>, Append(acc, cur))
    ELSE SplitDotAcc(Tail(s), Append(cur, Head(s)), acc)

\* path.split('.')
SplitDot(path) == SplitDotAcc(path, <<>>, <<>>)

\* o?.[key]: a property of an object, undefined for anything else.
Prop(o, key) == IF o.t = "obj" THEN Get(o.o, key) ELSE Undefined

RECURSIVE Reduce(_, _)
Reduce(keys, o) ==
    IF keys = <<>> THEN o ELSE Reduce(Tail(keys), Prop(o, KeyOf(Head(keys))))

\* getByPath(obj, path)
GetByPath(obj, path) == IF path = <<>> THEN obj ELSE Reduce(SplitDot(path), obj)

\* obj[key] throws a TypeError when obj is null or undefined.
Nullish(x) == x.t \in {"null", "undef"}

\* One field of formatRecord's loop: the segment appended to the line.
RenderField(f, obj) ==
    LET rawVal == IF f.valueType = "fixed" THEN Str(f.fixedValue)
                  ELSE Prop(obj, f.jsonKey)
        strRaw == IF Nullish(rawVal) THEN <<>> ELSE ToStr(rawVal)
    IN  IF f.variableLength
        THEN f.prefix \o strRaw \o f.suffix
        ELSE IF Len(strRaw) > f.length
             THEN Slice(strRaw, f.length)
             ELSE IF Len(strRaw) < f.length
                  THEN LET padStr == Repeat(f.padChar, f.length - Len(strRaw))
                       IN  IF f.padDir = "left" THEN padStr \o strRaw
                           ELSE strRaw \o padStr
                  ELSE strRaw

RECURSIVE RenderLine(_, _)
\* formatRecord's loop over def.fields
RenderLine(fields, obj) ==
    IF fields = <<>> THEN <<>>
    ELSE RenderField(Head(fields), obj) \o RenderLine(Tail(fields), obj)

\* recordDefs.find(d => d.recordType === rt): 0 when there is none.
FindType(defs, rt) ==
    IF \E i \in 1..Len(defs) : defs[i].recordType = rt
    THEN CHOOSE i \in 1..Len(defs) :
            /\ defs[i].recordType = rt
            /\ \A j \in 1..(i - 1) : defs[j].recordType # rt
    ELSE 0

\* formatRecord reads a property of obj: a field read from JSON, or any
\* child definition.
ReadsObj(def) ==
    \/ \E i \in 1..Len(def.fields) : def.fields[i].valueType # "fixed"
    \/ def.childDefinitions # <<>>

\* A result of formatRecord: the lines, or the TypeError it threw.
Lines(ls) == [ok |-> TRUE, lines |-> ls]
Thrown == [ok |-> FALSE, lines |-> <<>>]

\* The lines pushed later put in front of the lines pushed earlier.
ThenSwapped(a, b) == IF a.ok /\ b.ok THEN Lines(b.lines \o a.lines) ELSE Thrown

\* lines.push(...more): the lines so far, then the lines that follow.
Then(a, b) == IF a.ok /\ b.ok THEN Lines(a.lines \o b.lines) ELSE Thrown

RECURSIVE FormatRecord(_, _, _)
RECURSIVE FormatEach(_, _, _)
RECURSIVE FormatLinks(_, _, _)

\* for (const childObj of children) lines.push(...formatRecord(schema, childObj))
FormatEach(defs, schema, children) ==
    IF children = <<>> THEN Lines(<<>>)
    ELSE LET first == FormatRecord(defs, schema, Head(children))
         IN  IF first.ok
             THEN Then(first, FormatEach(defs, schema, Tail(children)))
             ELSE Thrown

\* formatRecord's loop over def.childDefinitions
FormatLinks(defs, childDefs, obj) ==
    IF childDefs = <<>> THEN Lines(<<>>)
    ELSE LET childDef == Head(childDefs)
             children == Prop(obj, childDef.childrenFieldName)
             schema   == FindType(defs, childDef.childRecordType)
             these    == IF children.t = "arr" /\ schema # 0
                         THEN FormatEach(defs, defs[schema], children.a)
                         ELSE Lines(<<>>)
         IN  IF these.ok
             THEN Then(these, FormatLinks(defs, Tail(childDefs), obj))
             ELSE Thrown

\* formatRecord(def, obj)
FormatRecord(defs, def, obj) ==
    IF Nullish(obj) /\ ReadsObj(def) THEN Thrown
    ELSE Then(Lines(<<RenderLine(def.fields, obj)>>),
              FormatLinks(defs, def.childDefinitions, obj))

\* The round whose test for a single object is typeof arr === 'object'
\* alone, which null passes.
FormatRootNullObject(defs, def, json) ==
    LET arr == GetByPath(json, def.jsonPath)
    IN  IF arr.t = "arr" THEN FormatEach(defs, def, arr.a)
        ELSE IF arr.t \in {"obj", "null"} THEN FormatRecord(defs, def, arr)
        ELSE Lines(<<>>)

\* One round of the loop over recordDefs that builds allLines.
FormatRoot(defs, def, json) ==
    LET arr == GetByPath(json, def.jsonPath)
    IN  IF arr.t = "arr" THEN FormatEach(defs, def, arr.a)
        ELSE IF arr.t = "obj" THEN FormatRecord(defs, def, arr)
        ELSE Lines(<<>>)

-----------------------------------------------------------------------------
(* The inputs of the model *)

\* Lines of text: parents "P<count>", children "C<id>", a line with a
\* parenthesis, an unmatched line and a blank one.
LineSet ==
    { <<"P", "1">>, <<"P", "2">>, <<"P", "9">>,
      <<"C", "0", "7">>, <<"C", " ", "a">>, <<"C", "(">>,
      <<"Z", "z">>, <<" ">> }

RECURSIVE SeqsUpTo(_, _)
SeqsUpTo(S, n) ==
    IF n = 0 THEN {<<>>}
    ELSE LET shorter == SeqsUpTo(S, n - 1)
         IN  shorter \cup {Append(q, x) : q \in shorter, x \in S}

\* Two longer texts: a parent, a child with a child of its own and one more
\* child; a parent, two children and a line behind them.
LongTexts ==
    { JoinStr(<<<<"P", "1">>, <<"P", "1">>, <<"C", "0", "7">>, <<"C", " ", "a">>>>,
              <<"\n">>),
      JoinStr(<<<<"P", "1">>, <<"C", "0", "7">>, <<"C", " ", "a">>, <<"C", "0", "7">>>>,
              <<"\n">>) }

\* The texts: up to MaxLines lines joined by "\n", and the longer ones.
FileContents ==
    {JoinStr(ls, <<"\n">>) : ls \in SeqsUpTo(LineSet, MaxLines)} \cup LongTexts

TagField == Field("tag", 0, 1, "string")
CntField == Field("cnt", 1, 1, "string")
IdField  == Field("id", 1, 2, "string")

ParentDef(childType, childrenFieldName) ==
    RawDef("P", <<"P">>, <<TagField, CntField>>,
           <<Child("cnt", childType, childrenFieldName)>>)

ChildDef == RawDef("C", <<"C">>, <<TagField, IdField>>, <<>>)

\* The parameter recordDefs.record: an array of raw definitions, or no array.
RecordDefSets ==
    { \* children nested under "kids"
      [array |-> TRUE, record |-> <<ParentDef("C", "kids"), ChildDef>>],
      \* children without a childrenFieldName
      [array |-> TRUE, record |-> <<ParentDef("C", ""), ChildDef>>],
      \* a child link to a record type nobody defines
      [array |-> TRUE, record |-> <<ParentDef("X", "kids"), ChildDef>>],
      \* record type "C" defined twice
      [array |-> TRUE, record |->
          <<ParentDef("C", "kids"), ChildDef,
            RawDef("C", <<"^", "C">>, <<Field("id", 2, 1, "string")>>, <<>>)>>],
      \* a record type that is its own child type
      [array |-> TRUE, record |->
          <<RawDef("R", <<"P">>, <<TagField, CntField>>,
                   <<Child("cnt", "R", "kids")>>)>>],
      \* two child links, the first with a countField no field decodes
      [array |-> TRUE, record |->
          <<RawDef("P", <<"P">>, <<TagField, CntField>>,
                   <<Child("nope", "C", "none"), Child("cnt", "C", "kids")>>),
            ChildDef>>],
      \* a parent whose count column holds a letter
      [array |-> TRUE, record |->
          <<RawDef("Z", <<"Z">>, <<TagField, CntField>>,
                   <<Child("cnt", "C", "kids")>>),
            ChildDef>>],
      \* two record types whose matchers accept the same lines
      [array |-> TRUE, record |->
          <<ChildDef, RawDef("S", <<"7">>, <<TagField>>, <<>>),
            RawDef("T", <<"C">>, <<IdField>>, <<>>)>>],
      \* number fields: the two columns of the id, and the first of them alone
      [array |-> TRUE, record |->
          <<RawDef("C", <<"C">>,
                   <<TagField, Field("id", 1, 2, "number"),
                     Field("gap", 1, 1, "number")>>, <<>>)>>],
      \* three child links: children with children of their own, children
      \* attached under the name of the count field, and a link that reads
      \* that field after them
      [array |-> TRUE, record |->
          <<RawDef("P", <<"P">>, <<TagField, CntField>>,
                   <<Child("cnt", "M", "kids"), Child("cnt", "C", "cnt"),
                     Child("cnt", "C", "last")>>),
            RawDef("M", <<"M">>, <<TagField, CntField>>,
                   <<Child("cnt", "C", "subs")>>),
            ChildDef>>],
      \* matchers that are no regular expressions, "(" and "C(", around one
      \* that is
      [array |-> TRUE, record |->
          <<RawDef("A", <<"(">>, <<TagField>>, <<>>),
            RawDef("S", <<"7">>, <<TagField>>, <<>>),
            RawDef("B", <<"C", "(">>, <<TagField>>, <<>>)>>],
      \* date and json fields
      [array |-> TRUE, record |->
          <<RawDef("J", <<"P">>,
                   <<Field("tag", 0, 1, "date"), Field("cnt", 1, 1, "json")>>, <<>>),
            RawDef("D", <<"C">>,
                   <<Field("tag", 0, 1, "json"), Field("id", 1, 2, "date")>>, <<>>)>>],
      \* no definition
      [array |-> TRUE, record |-> <<>>],
      \* the parameter is not an array
      [array |-> FALSE, record |-> <<>>] }

(* Inputs of the JSON to Text node *)

PadChars == {<<" ">>, <<"0">>, <<>>, <<"a", "b">>}
PadDirs == {"left", "right"}
EncLengths == {1, 3}

ItemsPath == <<"i", "t", "e", "m", "s">>
KidPath == <<"d", "a", "t", "a", ".", "k", "i", "d">>

IdEncField(length, padChar, padDir) ==
    EncField("jsonKey", "id", <<>>, length, padChar, padDir)

HLiteral == EncField("fixed", "", <<"H">>, 1, <<" ">>, "right")

EncShapes == {"nested", "unknownChild", "literal", "variable", "deep"}

EncRecord(shape, length, padChar, padDir) ==
    CASE shape = "nested" ->
            <<EncDef("H", ItemsPath,
                     <<HLiteral, IdEncField(length, padChar, padDir)>>,
                     <<EncChild("kids", "K")>>),
              EncDef("K", KidPath, <<IdEncField(length, padChar, padDir)>>, <<>>)>>
      [] shape = "unknownChild" ->
            <<EncDef("H", ItemsPath, <<IdEncField(length, padChar, padDir)>>,
                     <<EncChild("kids", "X")>>)>>
      [] shape = "literal" ->
            <<EncDef("H", ItemsPath,
                     <<EncField("fixed", "", <<"H", "D", "R">>, length, padChar, padDir)>>,
                     <<>>)>>
      [] shape = "variable" ->
            <<EncDef("H", ItemsPath,
                     <<VarField("id", <<"[">>, <<"]">>),
                       IdEncField(length, padChar, padDir)>>,
                     <<>>)>>
      \* two child links, children with children, and a record type M that
      \* is only a child type: it has no jsonPath
      [] shape = "deep" ->
            <<EncDef("H", ItemsPath,
                     <<HLiteral, IdEncField(length, padChar, padDir)>>,
                     <<EncChild("kids", "K"), EncChild("more", "M")>>),
              EncDef("K", KidPath, <<IdEncField(length, padChar, padDir)>>,
                     <<EncChild("sub", "M")>>),
              EncDef("M", <<>>, <<IdEncField(length, padChar, padDir)>>, <<>>)>>

EncDefSets ==
    { [array |-> TRUE, record |-> EncRecord(sh, n, c, d)] :
          sh \in EncShapes, n \in EncLengths, c \in PadChars, d \in PadDirs }
    \cup { [array |-> TRUE, record |-> <<>>], [array |-> FALSE, record |-> <<>>] }

ObjOf(id) == Obj([k \in {"id"} |-> id])

WithKids(id, kids) ==
    Obj([k \in {"id", "kids"} |-> IF k = "id" THEN id ELSE kids])

Root(items) == Obj([k \in {"items"} |-> items])

\* An object with an id and the arrays (or other values) of its child links.
Node(id, links) ==
    Obj([k \in {"id"} \cup DOMAIN links |->
            IF k = "id" THEN Str(<<id>>) ELSE links[k]])

Leaf(id) == ObjOf(Str(<<id>>))

\* Two items; the first has two kids, one of them with two sub records, and
\* one more record; the second has text where its kids should be.
DeepItems ==
    Arr(<<Node("7", [kids |-> Arr(<<Node("a", [sub |-> Arr(<<Leaf("s"), Leaf("t")>>)]),
                                   Leaf("c")>>),
                     more |-> Arr(<<Leaf("m")>>)]),
          Node("8", [kids |-> Str(<<"x">>), more |-> Arr(<<Leaf("n")>>)])>>)

\* items[i].json
EncInputs ==
    { Obj([k \in {"items", "data"} |->
            IF k = "items"
            THEN Arr(<<WithKids(Str(<<"7">>),
                                Arr(<<ObjOf(Str(<<"a", "b">>)),
                                      ObjOf(Str(<<"1", "2", "3", "4">>))>>)),
                       ObjOf(Str(<<"1", "2", "3", "4", "5", "6">>))>>)
            ELSE Obj([j \in {"kid"} |-> ObjOf(Str(<<"z">>))])]),
      Root(DeepItems),
      Root(Arr(<<Null, ObjOf(Str(<<"7">>))>>)),
      Root(Arr(<<Str(<<"7">>), ObjOf(Num(42))>>)),
      Root(Arr(<<WithKids(Str(<<"7">>), Arr(<<Null>>))>>)),
      Root(Arr(<<ObjOf(Null), Obj(EmptyObj)>>)),
      Root(ObjOf(Str(<<"a", "b", "c">>))),
      Root(Str(<<"x">>)),
      Root(Null),
      Obj(EmptyObj) }

NewLines == {<<"\n">>, <<"\r", "\n">>}

-----------------------------------------------------------------------------
(* State *)

VARIABLES
    node,           \* the node that executes: "TextToJson" or "JsonToText"
    recordDefsRaw,  \* getNodeParameter('recordDefs.record')
    fileContent,    \* getNodeParameter('fileContent')
    aggregate,      \* getNodeParameter('aggregateByRecordType')
    lines,          \* the filtered line array
    idx,            \* the cursor of the main parsing loop
    stack,          \* the active parseBlock calls, innermost last
    parsedItems,    \* the json of the items the main loop has pushed
    decoded,        \* the parseLine calls so far: the line and the definition
    skipped,        \* the lines the main loop has passed over so far
    allOutput,      \* the json of the items handed to prepareOutputData
    inputJson,      \* items[i].json, the value tree JsonToText formats
    newLine,        \* getNodeParameter('newLineChar')
    defIdx,         \* JsonToText: the position of the loop over recordDefs
    allLines,       \* JsonToText: the lines built so far
    error,          \* "none", or the error execute threw
    pc              \* "start", "root", "block", "format", "done", "error"

vars == <<node, recordDefsRaw, fileContent, aggregate, lines, idx, stack,
          parsedItems, decoded, skipped, allOutput, inputJson, newLine, defIdx,
          allLines, error, pc>>

\* TextToJson's typed record definitions
recordDefs == BuildDefs(recordDefsRaw.record)

\* JsonToText's record definitions
encDefs == BuildEncDefs(recordDefsRaw.record)

InitDecode ==
    /\ node = "TextToJson"
    /\ recordDefsRaw \in RecordDefSets
    /\ fileContent \in FileContents
    /\ aggregate \in BOOLEAN
    /\ inputJson = Null
    /\ newLine = <<>>

InitEncode ==
    /\ node = "JsonToText"
    /\ recordDefsRaw \in EncDefSets
    /\ inputJson \in EncInputs
    /\ newLine \in NewLines
    /\ fileContent = <<>>
    /\ aggregate = FALSE

Init ==
    /\ InitDecode \/ InitEncode
    /\ lines = <<>>
    /\ idx = 0
    /\ stack = <<>>
    /\ parsedItems = <<>>
    /\ decoded = <<>>
    /\ skipped = <<>>
    /\ allOutput = <<>>
    /\ defIdx = 1
    /\ allLines = <<>>
    /\ error = "none"
    /\ pc = "start"

-----------------------------------------------------------------------------
(* TextToJson.execute *)

\* The guard without its test for an empty array.
NoDefsArrayOnly(raw) == ~raw.array

\* The guard on the record definitions throws.
NoDefs(raw) == ~raw.array \/ Len(raw.record) = 0

\* The block whose cursor starts on its own line, not behind it.
NewFrameOnLine(startIdx, def) ==
    [def      |-> def,
     startIdx |-> startIdx,
     json     |-> ParseLine(def, lines[startIdx + 1]),
     idx      |-> startIdx,
     link     |-> 1,
     i        |-> 0,
     children |-> <<>>]

\* The first statements of parseBlock(startIdx, def).
NewFrame(startIdx, def) ==
    [def      |-> def,
     startIdx |-> startIdx,
     json     |-> ParseLine(def, lines[startIdx + 1]),
     idx      |-> startIdx + 1,
     link     |-> 1,
     i        |-> 0,
     children |-> <<>>]

Top == stack[Len(stack)]

\* One call parseLine(def, lines[startIdx]).
Call(startIdx, def) == [line |-> startIdx, recordType |-> def.recordType]

\* The frame is inside its loop over def.childDefinitions.
InLinks(f) == f.link <= Len(f.def.childDefinitions)

CurLink(f) == f.def.childDefinitions[f.link]

\* const count = parseInt(parentJson[childDef.countField], 10) || 0
Count(f) == ParseIntOr0(Get(f.json, CurLink(f).countField))

\* The loop condition with i <= count for i < count.
MoreChildrenOffByOne(f) == f.i <= Count(f) /\ f.idx < Len(lines)

\* i < count && idx < lines.length
MoreChildren(f) == f.i < Count(f) /\ f.idx < Len(lines)

\* Entry of execute: read the parameters, check them, split the text.
Start ==
    /\ node = "TextToJson"
    /\ pc = "start"
    /\ IF NoDefs(recordDefsRaw)
       THEN /\ pc' = "error"
            /\ error' = "NoRecordDefinition"
            /\ UNCHANGED lines
       ELSE /\ pc' = "root"
            /\ lines' = FilteredLines(fileContent)
            /\ UNCHANGED error
    /\ UNCHANGED <<node, inputJson, newLine, defIdx, allLines,
                   recordDefsRaw, fileContent, aggregate, idx, stack,
                   parsedItems, allOutput,
                   decoded, skipped>>

\* The skip that passes over the following line as well.
RootSkipTwo ==
    /\ pc = "root"
    /\ idx < Len(lines)
    /\ FindDef(recordDefs, lines[idx + 1]) = 0
    /\ idx' = idx + 2
    /\ skipped' = Append(skipped, idx)
    /\ UNCHANGED <<node, inputJson, newLine, defIdx, allLines,
                   recordDefsRaw, fileContent, aggregate, lines, stack,
                   parsedItems, allOutput, error, pc, decoded>>

\* Main loop, a line no matcher accepts: idx++.
RootSkip ==
    /\ pc = "root"
    /\ idx < Len(lines)
    /\ FindDef(recordDefs, lines[idx + 1]) = 0
    /\ idx' = idx + 1
    /\ skipped' = Append(skipped, idx)
    /\ UNCHANGED <<node, inputJson, newLine, defIdx, allLines,
                   recordDefsRaw, fileContent, aggregate, lines, stack,
                   parsedItems, allOutput, error, pc,
                   decoded>>

\* Main loop, a matched line: parseBlock(idx, def) is entered.
RootCall ==
    /\ pc = "root"
    /\ idx < Len(lines)
    /\ \E defs \in {recordDefs} :
          \E found \in {FindDef(defs, lines[idx + 1])} :
             /\ found # 0
             /\ \E frame \in {NewFrame(idx, defs[found])} :
                   stack' = <<frame>>
             /\ decoded' = Append(decoded, Call(idx, defs[found]))
    /\ pc' = "block"
    /\ UNCHANGED <<node, inputJson, newLine, defIdx, allLines,
                   recordDefsRaw, fileContent, aggregate, lines, idx,
                   parsedItems, allOutput, error, skipped>>

\* The inner loop that classifies the child's line with the matchers and
\* falls back to the child schema when no matcher accepts the line.
ChildCallMatched ==
    /\ pc = "block"
    /\ InLinks(Top)
    /\ MoreChildren(Top)
    /\ CurLink(Top).childRecordType \in MapKeys(recordDefs)
    /\ LET found == FindDef(recordDefs, lines[Top.idx + 1])
           def == IF found # 0 THEN recordDefs[found]
                  ELSE MapLookup(recordDefs, CurLink(Top).childRecordType)
       IN  /\ stack' = Append(stack, NewFrame(Top.idx, def))
           /\ decoded' = Append(decoded, Call(Top.idx, def))
    /\ UNCHANGED <<node, inputJson, newLine, defIdx, allLines,
                   recordDefsRaw, fileContent, aggregate, lines, idx,
                   parsedItems, allOutput, pc, error, skipped>>

\* parseBlock's inner loop calls parseBlock(idx, childSchema); an undefined
\* childSchema makes parseLine throw a TypeError on def.fields.
ChildCall ==
    /\ pc = "block"
    /\ InLinks(Top)
    /\ MoreChildren(Top)
    /\ IF CurLink(Top).childRecordType \in MapKeys(recordDefs)
       THEN /\ \E childSchema \in
                      {MapLookup(recordDefs, CurLink(Top).childRecordType)} :
                  /\ \E frame \in {NewFrame(Top.idx, childSchema)} :
                        stack' = Append(stack, frame)
                  /\ decoded' = Append(decoded, Call(Top.idx, childSchema))
            /\ UNCHANGED <<pc, error>>
       ELSE /\ pc' = "error"
            /\ error' = "TypeError"
            /\ UNCHANGED <<stack, decoded>>
    /\ UNCHANGED <<node, inputJson, newLine, defIdx, allLines,
                   recordDefsRaw, fileContent, aggregate, lines, idx,
                   parsedItems, allOutput, skipped>>

\* parentJson after the inner loop of one child definition.
Attach(f) ==
    IF CurLink(f).childrenFieldName # ""
    THEN Put(f.json, CurLink(f).childrenFieldName,
             Arr([k \in 1..Len(f.children) |-> Obj(f.children[k])]))
    ELSE f.json

\* The next child definition starts again behind the parent's line.
LinkDoneRewind ==
    /\ pc = "block"
    /\ InLinks(Top)
    /\ ~MoreChildren(Top)
    /\ stack' = [stack EXCEPT ![Len(stack)] =
                    [Top EXCEPT !.json = Attach(Top), !.link = @ + 1,
                                !.i = 0, !.children = <<>>,
                                !.idx = Top.startIdx + 1]]
    /\ UNCHANGED <<node, inputJson, newLine, defIdx, allLines,
                   recordDefsRaw, fileContent, aggregate, lines, idx,
                   parsedItems, allOutput, error, pc, decoded, skipped>>

\* The inner loop of one child definition ends; on to the next one.
LinkDone ==
    /\ pc = "block"
    /\ InLinks(Top)
    /\ ~MoreChildren(Top)
    /\ stack' = [stack EXCEPT ![Len(stack)] =
                    [Top EXCEPT !.json = Attach(Top), !.link = @ + 1,
                                !.i = 0, !.children = <<>>]]
    /\ UNCHANGED <<node, inputJson, newLine, defIdx, allLines,
                   recordDefsRaw, fileContent, aggregate, lines, idx,
                   parsedItems, allOutput, error, pc,
                   decoded, skipped>>

\* The return that leaves the caller's cursor on the child's line.
ChildReturnStale ==
    /\ pc = "block"
    /\ ~InLinks(Top)
    /\ Len(stack) > 1
    /\ LET caller == stack[Len(stack) - 1]
       IN  stack' = [SubSeq(stack, 1, Len(stack) - 1) EXCEPT ![Len(stack) - 1] =
                        [caller EXCEPT !.children = Append(@, Top.json),
                                       !.i = @ + 1]]
    /\ UNCHANGED <<node, inputJson, newLine, defIdx, allLines,
                   recordDefsRaw, fileContent, aggregate, lines, idx,
                   parsedItems, allOutput, error, pc, decoded, skipped>>

\* A nested parseBlock returns [childItem, nextIdx] to the inner loop.
ChildReturn ==
    /\ pc = "block"
    /\ ~InLinks(Top)
    /\ Len(stack) > 1
    /\ LET caller == stack[Len(stack) - 1]
       IN  stack' = [SubSeq(stack, 1, Len(stack) - 1) EXCEPT ![Len(stack) - 1] =
                        [caller EXCEPT !.children = Append(@, Top.json),
                                       !.idx = Top.idx,
                                       !.i = @ + 1]]
    /\ UNCHANGED <<node, inputJson, newLine, defIdx, allLines,
                   recordDefsRaw, fileContent, aggregate, lines, idx,
                   parsedItems, allOutput, error, pc,
                   decoded, skipped>>

\* The outermost parseBlock returns [item, nextIdx] to the main loop.
RootReturn ==
    /\ pc = "block"
    /\ ~InLinks(Top)
    /\ Len(stack) = 1
    /\ parsedItems' = Append(parsedItems, Top.json)
    /\ idx' = Top.idx
    /\ stack' = <<>>
    /\ pc' = "root"
    /\ UNCHANGED <<node, inputJson, newLine, defIdx, allLines,
                   recordDefsRaw, fileContent, aggregate, lines, allOutput,
                   error,
                   decoded, skipped>>

\* The grouping that puts every item in front of the earlier ones of its
\* record type.
RECURSIVE AggregatedNewestFirst(_, _)
AggregatedNewestFirst(items, acc) ==
    IF items = <<>> THEN acc
    ELSE LET rt == items[1]["__recordType"].s[1]
         IN  AggregatedNewestFirst(Tail(items),
                 Put(acc, rt, Arr(<<Obj(Rest(items[1]))>> \o acc[rt].a)))

\* aggregated[__recordType].push(rest), over the items in order
RECURSIVE Aggregated(_, _)
Aggregated(items, acc) ==
    IF items = <<>> THEN acc
    ELSE LET rt == items[1]["__recordType"].s[1]
         IN  Aggregated(Tail(items),
                        Put(acc, rt, Arr(Append(acc[rt].a, Obj(Rest(items[1]))))))

\* aggregated[d.recordType] = [] for every definition
EmptyAggregate == [rt \in MapKeys(recordDefs) |-> Arr(<<>>)]

\* After the main loop: one aggregated item, or one item per parsed item.
Emit ==
    /\ pc = "root"
    /\ idx >= Len(lines)
    /\ allOutput' = IF aggregate
                    THEN <<Aggregated(parsedItems, EmptyAggregate)>>
                    ELSE parsedItems
    /\ pc' = "done"
    /\ UNCHANGED <<node, inputJson, newLine, defIdx, allLines,
                   recordDefsRaw, fileContent, aggregate, lines, idx, stack,
                   parsedItems, error,
                   decoded, skipped>>

-----------------------------------------------------------------------------
(* JsonToText.execute *)

\* Entry of execute: if (!recordDefsRaw?.length) throw
EncStart ==
    /\ node = "JsonToText"
    /\ pc = "start"
    /\ IF NoDefs(recordDefsRaw)
       THEN pc' = "error" /\ error' = "NoRecordDefinition"
       ELSE pc' = "format" /\ UNCHANGED error
    /\ UNCHANGED <<node, recordDefsRaw, fileContent, aggregate, lines, idx,
                   stack, parsedItems, allOutput, inputJson, newLine, defIdx,
                   allLines,
                   decoded, skipped>>

\* One round of the loop over recordDefs: the lines of one record
\* definition are appended, or formatRecord throws.
EncodeDef ==
    /\ pc = "format"
    /\ defIdx <= Len(encDefs)
    /\ LET r == FormatRoot(encDefs, encDefs[defIdx], inputJson)
       IN  IF r.ok
           THEN /\ allLines' = allLines \o r.lines
                /\ defIdx' = defIdx + 1
                /\ UNCHANGED <<pc, error>>
           ELSE /\ pc' = "error"
                /\ error' = "TypeError"
                /\ UNCHANGED <<allLines, defIdx>>
    /\ UNCHANGED <<node, recordDefsRaw, fileContent, aggregate, lines, idx,
                   stack, parsedItems, allOutput, inputJson, newLine,
                   decoded, skipped>>

\* The text item json of the output: { text: ... }
TextItem(text) == [k \in {"text"} |-> Str(text)]

\* The join that ends every line, the last one too, with the separator.
EncodeJoinTrailing ==
    /\ pc = "format"
    /\ defIdx > Len(encDefs)
    /\ allOutput' = <<TextItem(JoinStr(allLines, newLine) \o newLine)>>
    /\ pc' = "done"
    /\ UNCHANGED <<node, recordDefsRaw, fileContent, aggregate, lines, idx,
                   stack, parsedItems, inputJson, newLine, defIdx, allLines,
                   error, decoded, skipped>>

\* output.push({ json: { text: allLines.join(newLine) } })
EncodeJoin ==
    /\ pc = "format"
    /\ defIdx > Len(encDefs)
    /\ allOutput' = <<TextItem(JoinStr(allLines, newLine))>>
    /\ pc' = "done"
    /\ UNCHANGED <<node, recordDefsRaw, fileContent, aggregate, lines, idx,
                   stack, parsedItems, inputJson, newLine, defIdx, allLines,
                   error,
                   decoded, skipped>>

Next ==
    \/ Start
    \/ RootSkip
    \/ RootCall
    \/ ChildCall
    \/ LinkDone
    \/ ChildReturn
    \/ RootReturn
    \/ Emit
    \/ EncStart
    \/ EncodeDef
    \/ EncodeJoin

Spec == Init /\ [][Next]_vars

\* The Text to JSON node alone: the steps of TextToJson.execute.
DecodeInit == Init /\ node = "TextToJson"

DecodeNext ==
    \/ Start
    \/ RootSkip
    \/ RootCall
    \/ ChildCall
    \/ LinkDone
    \/ ChildReturn
    \/ RootReturn
    \/ Emit

\* execute is synchronous code on one thread that nothing suspends for good:
\* whenever a step of it is possible, one is eventually taken.
LiveSpec == DecodeInit /\ [][DecodeNext]_vars /\ WF_vars(DecodeNext)

-----------------------------------------------------------------------------
(* Properties *)

Frames == {stack[k] : k \in 1..Len(stack)}

\* The line a parseBlock call was started on.
FrameLine(f) == lines[f.startIdx + 1]

\* The first child link of the frame's definition has been processed and no
\* later one has.
FirstLinkDone(f) == f.def.childDefinitions # <<>> /\ f.link = 2 /\ f.i = 0

FirstLink(f) == f.def.childDefinitions[1]

\* The first child link names a children field and a defined record type
\* that has no child links of its own.
LeafLink(f) ==
    /\ FirstLink(f).childrenFieldName # ""
    /\ FirstLink(f).childRecordType \in MapKeys(recordDefs)
    /\ MapLookup(recordDefs, FirstLink(f).childRecordType).childDefinitions = <<>>

\* The count a parent line "P<digit>" carries in its cnt column.
LineCount(f) ==
    IF FirstLink(f).countField = "cnt" /\ Len(FrameLine(f)) >= 2
       /\ FrameLine(f)[2] \in DigitSet
    THEN DigitVal(FrameLine(f)[2])
    ELSE 0

\* The lines that follow the parent's line.
Remaining(f) == Len(lines) - (f.startIdx + 1)

\* The children the next m lines decode to under the link's record type.
ExpectedChildren(f, m) ==
    Arr([k \in 1..m |->
            Obj(ParseLine(MapLookup(recordDefs, FirstLink(f).childRecordType),
                          lines[f.startIdx + 1 + k]))])

\* C1: once the first child link of a parent is done, and the link names a
\* children field and a child type without child links, the array under
\* childrenFieldName holds the records of the next min(count, remaining)
\* lines in line order, the cursor stands right after them and no error was
\* raised.
C1_CountDrivenNesting ==
    \A f \in Frames :
        (FirstLinkDone(f) /\ LeafLink(f)) =>
            LET m == Min(LineCount(f), Remaining(f))
            IN  /\ Get(f.json, FirstLink(f).childrenFieldName) = ExpectedChildren(f, m)
                /\ f.idx = f.startIdx + 1 + m
                /\ error = "none"

\* C1 witness: a parent that asks for 9 children with 2 lines left has got
\* both of them and stands at the end of the input.
C1_Witness ==
    \E f \in Frames :
        /\ FirstLinkDone(f) /\ LeafLink(f)
        /\ LineCount(f) = 9 /\ Remaining(f) = 2
        /\ Len(Get(f.json, FirstLink(f).childrenFieldName).a) = 2
        /\ f.idx = Len(lines)

\* No child link of any definition names a children field.
NoChildrenField ==
    \A d \in 1..Len(recordDefs) :
        \A c \in 1..Len(recordDefs[d].childDefinitions) :
            recordDefs[d].childDefinitions[c].childrenFieldName = ""

ItemSet(items) == {items[k] : k \in 1..Len(items)}

\* C2: in flat mode, with child links that name no children field, the record
\* of every line a childless record type matches is among the output items,
\* whether the main loop decoded it or a parent consumed it as a child.
C2_UnattachedChildrenEmitted ==
    (node = "TextToJson" /\ pc = "done" /\ ~aggregate /\ NoChildrenField) =>
        \A k \in 1..Len(lines) :
            LET d == FindDef(recordDefs, lines[k])
            IN  (d # 0 /\ recordDefs[d].childDefinitions = <<>>) =>
                    ParseLine(recordDefs[d], lines[k]) \in ItemSet(allOutput)

\* C3: a child link whose record type is not defined raises no error,
\* whatever the count.
C3_UnresolvedLinkSkipped ==
    \A f \in Frames :
        (InLinks(f) /\ CurLink(f).childRecordType \notin MapKeys(recordDefs)) =>
            error = "none"

\* Two raw definitions share a record type.
DuplicateTypes(raw) ==
    \E i, j \in 1..Len(raw) : i # j /\ raw[i].recordType = raw[j].recordType

\* C4: with a record type defined twice the call ends in a schema error: it
\* never gets past its entry.
C4_DuplicateRejected ==
    DuplicateTypes(recordDefsRaw.record) => pc \in {"start", "error"}

\* The record definitions are absent or empty.
DefsMissing == recordDefsRaw.array = FALSE \/ recordDefsRaw.record = <<>>

\* C5: with absent or empty record definitions the call never leaves its
\* entry except into the error, and then nothing was split, parsed, rendered
\* or put out.
C5_NoDefsIsError ==
    DefsMissing =>
        /\ pc \in {"start", "error"}
        /\ pc = "error" => error = "NoRecordDefinition"
        /\ pc = "start" => ENABLED Next
        /\ lines = <<>> /\ stack = <<>> /\ parsedItems = <<>>
        /\ allLines = <<>> /\ allOutput = <<>>

\* C5 witness: the error was raised for an empty array of definitions.
C5_Witness ==
    /\ recordDefsRaw.array /\ recordDefsRaw.record = <<>>
    /\ pc = "error" /\ error = "NoRecordDefinition"

\* C6: with at least one record definition no call ends in an error.
C6_NeverAborts == ~DefsMissing => pc # "error"

RECURSIVE Width(_)
\* The sum of the declared lengths of the fields.
Width(fields) ==
    IF fields = <<>> THEN 0 ELSE Head(fields).length + Width(Tail(fields))

\* Every field of every definition is rendered fixed-width.
AllFixedWidth ==
    \A d \in 1..Len(encDefs) :
        \A k \in 1..Len(encDefs[d].fields) : ~encDefs[d].fields[k].variableLength

\* C7: when every field is fixed-width, every line built has the summed
\* declared length of the fields of one of the record definitions.
C7_FixedWidth ==
    (node = "JsonToText" /\ ~DefsMissing /\ AllFixedWidth) =>
        \A k \in 1..Len(allLines) :
            \E d \in 1..Len(encDefs) :
                Len(allLines[k]) = Width(encDefs[d].fields)

\* Every field is fixed and keeps its text as a string.
StringFixed(def) ==
    \A k \in 1..Len(def.fields) :
        def.fields[k].type = "fixed" /\ def.fields[k].outputType \in {"string", ""}

\* The fields cover a line from position 0 on, one after the other, under
\* distinct names, none of which a child link uses for its children.
Tiles(def) ==
    /\ def.fields # <<>>
    /\ \A k \in 1..Len(def.fields) : \A c \in 1..Len(def.childDefinitions) :
          def.childDefinitions[c].childrenFieldName # def.fields[k].name
    /\ def.fields[1].start = 0
    /\ \A k \in 2..Len(def.fields) :
          def.fields[k].start = def.fields[k - 1].start + def.fields[k - 1].length
    /\ \A j, k \in 1..Len(def.fields) :
          j # k => def.fields[j].name # def.fields[k].name
    /\ \A k \in 1..Len(def.fields) :
          def.fields[k].length > 0 /\ def.fields[k].name # "__recordType"

\* The JsonToText fields that mirror a TextToJson definition: the same keys
\* and lengths, padChar ' ' and one padDirection.
EncOf(def, padDir) ==
    [k \in 1..Len(def.fields) |->
        [valueType |-> "jsonKey", jsonKey |-> def.fields[k].name,
         fixedValue |-> <<>>, length |-> def.fields[k].length,
         padChar |-> <<" ">>, padDir |-> padDir,
         variableLength |-> FALSE, prefix |-> <<>>, suffix |-> <<>>]]

\* The line is exactly as long as the declared fields.
FullLine(f) == Len(FrameLine(f)) = Width(f.def.fields)

\* Encoding the record decoded from the frame's line gives the line back.
RoundTrips(f, padDir) ==
    RenderLine(EncOf(f.def, padDir), Obj(f.json)) = FrameLine(f)

\* The text has whitespace only as spaces on the side that gets padded.
Aligned(s, padDir) ==
    \/ \A i \in 1..Len(s) : s[i] = " "
    \/ IF padDir = "left"
       THEN /\ s[Len(s)] \notin Whitespace
            /\ \A i \in 1..Len(s) :
                  (\A j \in 1..i : s[j] \in Whitespace) => s[i] = " "
       ELSE /\ s[1] \notin Whitespace
            /\ \A i \in 1..Len(s) :
                  (\A j \in i..Len(s) : s[j] \in Whitespace) => s[i] = " "

\* Every field's text in the frame's line is aligned for the padDirection.
AlignedLine(f, padDir) ==
    \A k \in 1..Len(f.def.fields) :
        Aligned(Substr(FrameLine(f), f.def.fields[k].start, f.def.fields[k].length),
                padDir)

OneJsonField ==
    /\ Len(encDefs) = 1
    /\ Len(encDefs[1].fields) = 1
    /\ encDefs[1].fields[1].valueType = "jsonKey"
    /\ ~encDefs[1].fields[1].variableLength

\* C9: rendering an already rendered segment again with the same field gives
\* the same segment.
C9_RenderIdempotent ==
    (node = "JsonToText" /\ ~DefsMissing /\ OneJsonField) =>
        \A k \in 1..Len(allLines) :
            LET f == encDefs[1].fields[1]
            IN  RenderField(f, Obj([j \in {f.jsonKey} |-> Str(allLines[k])]))
                    = allLines[k]

RECURSIVE Tagged(_)
\* A __recordType key occurs somewhere in the value.
Tagged(x) ==
    CASE x.t = "obj" -> \/ "__recordType" \in DOMAIN x.o
                        \/ \E k \in DOMAIN x.o : Tagged(x.o[k])
      [] x.t = "arr" -> \E k \in 1..Len(x.a) : Tagged(x.a[k])
      [] OTHER       -> FALSE

\* C10: in aggregate mode the output is one object keyed by the record types
\* whose values are arrays, and no __recordType key occurs anywhere in them.
C10_NoTagInAggregate ==
    (node = "TextToJson" /\ pc = "done" /\ aggregate) =>
        /\ Len(allOutput) = 1
        /\ DOMAIN allOutput[1] = MapKeys(recordDefs)
        /\ \A rt \in DOMAIN allOutput[1] :
              allOutput[1][rt].t = "arr" /\ ~Tagged(allOutput[1][rt])

\* The number of parseLine calls made with the definition of record type rt.
DecodedWith(rt) ==
    Cardinality({k \in 1..Len(decoded) : decoded[k].recordType = rt})

\* C11: when an aggregated run is done, the array under every record type
\* holds as many elements as lines were decoded with that record type's
\* definition, whether the main loop or a parent's child link decoded them.
C11_AggregateCountsEveryLevel ==
    (node = "TextToJson" /\ pc = "done" /\ aggregate) =>
        \A rt \in MapKeys(recordDefs) :
            Len(allOutput[1][rt].a) = DecodedWith(rt)

\* The definitions, by position, whose matcher accepts the line.
Accepting(line) ==
    {k \in 1..Len(recordDefs) : Test(recordDefs[k].matcher, line)}

\* The parseLine calls made on line number n.
CallsOn(n) == {k \in 1..Len(decoded) : decoded[k].line = n}

\* C12: a line at the root cursor that some matcher accepts is decoded with
\* the earliest-declared definition whose matcher accepts it, by one
\* parseLine call, and when its block returns exactly one record has been
\* added to the parsed items.
C12_FirstMatchWins ==
    [][/\ (pc = "root" /\ idx < Len(lines) /\ Accepting(lines[idx + 1]) # {}) =>
            LET first == CHOOSE k \in Accepting(lines[idx + 1]) :
                            \A j \in Accepting(lines[idx + 1]) : k <= j
            IN  /\ pc' = "block"
                /\ Len(stack') = 1
                /\ stack'[1].def = recordDefs[first]
                /\ stack'[1].json = ParseLine(recordDefs[first], lines[idx + 1])
                /\ decoded' = Append(decoded, Call(idx, recordDefs[first]))
                /\ CallsOn(idx) = {}
       /\ (pc = "block" /\ pc' = "root") =>
            /\ Len(parsedItems') = Len(parsedItems) + 1
            /\ Cardinality(CallsOn(idx)) = 1
      ]_vars

\* C12 witness: the main loop decodes a line that two definitions of
\* different record types accept, with the one declared first.
C12_Witness ==
    /\ node = "TextToJson"
    /\ pc = "block"
    /\ Len(stack) = 1
    /\ \E j, k \in Accepting(FrameLine(stack[1])) :
          /\ j < k
          /\ recordDefs[j].recordType # recordDefs[k].recordType
          /\ stack[1].def = recordDefs[j]
          /\ stack[1].def # recordDefs[k]

\* C13: in the main loop a line no matcher accepts is passed over: the cursor
\* advances by one, nothing is decoded or pushed and no error is raised. A
\* line some matcher accepts starts parseBlock at the cursor, and when that
\* block returns its item is pushed and the cursor is the index the block
\* returned, past the line and within the line array.
C13_RootLoopSteps ==
    [][/\ (pc = "root" /\ idx < Len(lines) /\ Accepting(lines[idx + 1]) = {}) =>
            /\ idx' = idx + 1
            /\ parsedItems' = parsedItems
            /\ decoded' = decoded
            /\ stack' = <<>>
            /\ allOutput' = <<>>
            /\ error' = "none"
            /\ pc' = "root"
       /\ (pc = "root" /\ idx < Len(lines) /\ Accepting(lines[idx + 1]) # {}) =>
            /\ pc' = "block"
            /\ stack'[1].startIdx = idx
            /\ idx' = idx
       /\ (pc = "block" /\ pc' = "root") =>
            /\ idx' = stack[1].idx
            /\ idx < idx' /\ idx' <= Len(lines)
            /\ parsedItems' = Append(parsedItems, stack[1].json)
      ]_vars

\* C13 witness: of two lines the first was passed over, no parseLine call
\* was made on it, and the block of the second returned the end of the
\* array.
C13_Witness ==
    /\ node = "TextToJson"
    /\ pc = "root"
    /\ Len(lines) = 2
    /\ idx = 2
    /\ Accepting(lines[1]) = {}
    /\ CallsOn(0) = {}
    /\ Len(parsedItems) = 1
    /\ error = "none"

\* The record definition a child link names, when one is defined.
Declared(link) == MapLookup(recordDefs, link.childRecordType)

\* C14: inside a child link whose record type is defined, while fewer than
\* count blocks have returned and lines remain, the next line is decoded
\* with the link's declared definition, whatever the matchers say about the
\* line; the link ends only when count blocks have returned or the lines
\* have run out, and every returned block is among its children.
C14_ChildSchemaTrusted ==
    [][(pc = "block" /\ InLinks(Top)
            /\ CurLink(Top).childRecordType \in MapKeys(recordDefs)) =>
          /\ Len(Top.children) = Top.i
          /\ Top.i <= Count(Top)
          /\ IF Top.i < Count(Top) /\ Top.idx < Len(lines)
             THEN /\ Len(stack') = Len(stack) + 1
                  /\ stack'[Len(stack')].startIdx = Top.idx
                  /\ stack'[Len(stack')].def = Declared(CurLink(Top))
                  /\ stack'[Len(stack')].json =
                        ParseLine(Declared(CurLink(Top)), lines[Top.idx + 1])
                  /\ decoded' = Append(decoded,
                                       Call(Top.idx, Declared(CurLink(Top))))
                  /\ error' = "none"
             ELSE /\ Top.i = Count(Top) \/ Top.idx = Len(lines)
                  /\ Len(stack') = Len(stack)
                  /\ stack'[Len(stack)].link = Top.link + 1
                  /\ decoded' = decoded
      ]_vars

\* C14 witness: a child block is being decoded with the link's definition on
\* a line that no matcher accepts, the declared definition's included.
C14_Witness ==
    /\ node = "TextToJson"
    /\ pc = "block"
    /\ Len(stack) = 2
    /\ Accepting(FrameLine(Top)) = {}
    /\ Top.def = Declared(CurLink(stack[1]))
    /\ Top.json["__recordType"] = Str(<<CurLink(stack[1]).childRecordType>>)

\* C15: once the definitions are accepted and the lines are split, decode
\* reaches its end with the cursor at the end of the line array, whatever
\* the definitions link to and whatever the counts are.
C15_DecodeTerminates ==
    (node = "TextToJson" /\ pc = "root") ~> (pc = "done" /\ idx = Len(lines))

\* The largest number of a finite set of naturals, 0 for the empty set.
SetMax(S) == IF S = {} THEN 0 ELSE CHOOSE m \in S : \A n \in S : n <= m

\* The child links of a definition that name a defined record type.
ResolvedLinks(def) ==
    {k \in 1..Len(def.childDefinitions) :
        def.childDefinitions[k].childRecordType \in MapKeys(recordDefs)}

\* The nesting depth the child links declare below a definition: the
\* definition itself is one level, each chain of links one level per link,
\* and a link back to a record type already on the chain is counted once.
RECURSIVE DeclaredDepth(_, _)
DeclaredDepth(def, onChain) ==
    1 + SetMax({ IF def.childDefinitions[k].childRecordType
                       \in onChain \cup {def.recordType}
                 THEN 1
                 ELSE DeclaredDepth(Declared(def.childDefinitions[k]),
                                    onChain \cup {def.recordType})
                 : k \in ResolvedLinks(def) })

\* C16: the number of parseBlock calls that are active at once never exceeds
\* the nesting depth the child links declare below the definition of the
\* outermost call.
C16_DepthBoundedBySchema ==
    stack # <<>> => Len(stack) <= DeclaredDepth(stack[1].def, {})

\* The text holds no number: after leading white space it does not start
\* with a digit, nor with a sign and a digit.
NonNumeric(text) ==
    LET u == TrimStart(text)
    IN  \/ u = <<>>
        \/ /\ Head(u) \notin DigitSet
           /\ ~(Head(u) \in {"-", "+"} /\ Len(u) > 1 /\ u[2] \in DigitSet)

\* The count field of the frame's current child link is missing from the
\* decoded parent or holds text that is no number.
BadCount(f) ==
    \/ CurLink(f).countField \notin DOMAIN f.json
    \/ /\ f.json[CurLink(f).countField].t = "str"
       /\ NonNumeric(f.json[CurLink(f).countField].s)

\* C17: a child link whose count field is missing or not numeric is left at
\* once: no line is decoded, the cursor of the block stays where it was for
\* the next child link or the main loop, no error is raised, and an empty
\* array is attached exactly when the link names a childrenFieldName.
C17_BadCountIsZero ==
    [][(pc = "block" /\ InLinks(Top) /\ BadCount(Top)) =>
          /\ pc' = "block"
          /\ error' = "none"
          /\ decoded' = decoded
          /\ Len(stack') = Len(stack)
          /\ stack'[Len(stack)].idx = Top.idx
          /\ stack'[Len(stack)].link = Top.link + 1
          /\ stack'[Len(stack)].json =
                IF CurLink(Top).childrenFieldName # ""
                THEN Put(Top.json, CurLink(Top).childrenFieldName, Arr(<<>>))
                ELSE Top.json
      ]_vars

\* C17 witness: the first child link of a parent reads a count field that
\* the parent does not have; lines follow the parent, none was consumed, the
\* empty array is attached and the second link is about to run.
C17_Witness ==
    /\ node = "TextToJson"
    /\ pc = "block"
    /\ Len(stack) = 1
    /\ Top.link = 2 /\ Top.i = 0
    /\ Len(Top.def.childDefinitions) = 2
    /\ FirstLink(Top).countField \notin DOMAIN Top.json
    /\ Get(Top.json, FirstLink(Top).childrenFieldName) = Arr(<<>>)
    /\ Top.idx = Top.startIdx + 1
    /\ Top.idx < Len(lines)
    /\ error = "none"

\* The sequences of a sequence of sequences, one after the other.
RECURSIVE Concat(_)
Concat(seqs) == IF seqs = <<>> THEN <<>> ELSE Head(seqs) \o Concat(Tail(seqs))

\* The lines of a record in document order: its own line, then link by link
\* in declared order the records under the link's field in array order, each
\* with its own nested lines right behind it. A link to an unknown record
\* type, or whose field holds no array, has no lines.
RECURSIVE DocumentOrder(_, _)
DocumentOrder(def, obj) ==
    <<RenderLine(def.fields, obj)>> \o
    Concat([k \in 1..Len(def.childDefinitions) |->
        LET link     == def.childDefinitions[k]
            children == Prop(obj, link.childrenFieldName)
            known    == {d \in 1..Len(encDefs) :
                            encDefs[d].recordType = link.childRecordType}
        IN  IF children.t = "arr" /\ known # {}
            THEN Concat([e \in 1..Len(children.a) |->
                    DocumentOrder(encDefs[FindType(encDefs, link.childRecordType)],
                                  children.a[e])])
            ELSE <<>>])

\* The records the jsonPath of a definition resolves to.
RootRecords(def) ==
    LET arr == GetByPath(inputJson, def.jsonPath)
    IN  IF arr.t = "arr" THEN arr.a
        ELSE IF arr.t = "obj" THEN <<arr>>
        ELSE <<>>

\* C18: whenever a record definition has been formatted without an error,
\* the lines added for each of its records are the record's lines in
\* document order: the parent's line first, then the child links in declared
\* order, each child followed by its own nested lines.
C18_EncodeDocumentOrder ==
    [][(pc = "format" /\ defIdx <= Len(encDefs) /\ pc' = "format") =>
          allLines' = allLines \o
              Concat([r \in 1..Len(RootRecords(encDefs[defIdx])) |->
                         DocumentOrder(encDefs[defIdx],
                                       RootRecords(encDefs[defIdx])[r])])
      ]_vars

\* C18 witness: a definition with two child links has been formatted over
\* two records with kids, kids of kids, a field that is no array and more
\* records under the second link: eight lines, the two parents' lines first
\* and seventh.
C18_Witness ==
    /\ node = "JsonToText"
    /\ pc = "format"
    /\ defIdx = 2
    /\ Len(encDefs[1].childDefinitions) = 2
    /\ inputJson = Root(DeepItems)
    /\ Len(allLines) = 8
    /\ allLines[1] = RenderLine(encDefs[1].fields, DeepItems.a[1])
    /\ allLines[7] = RenderLine(encDefs[1].fields, DeepItems.a[2])
    /\ allLines[6] = RenderLine(encDefs[3].fields, Leaf("m"))

\* The value the jsonPath of the definition under the loop resolves to.
Resolved == GetByPath(inputJson, encDefs[defIdx].jsonPath)

\* The lines formatRecord gives each record of a sequence, in order.
EachInOrder(def, records) ==
    Concat([e \in 1..Len(records) |-> FormatRecord(encDefs, def, records[e]).lines])

\* C19: a round of the loop over the record definitions adds, when the
\* jsonPath resolves to an array, the lines of every element in array order;
\* when it resolves to one object, the lines of that object once; and when
\* it resolves to anything else (a scalar, null, nothing at all) it adds no
\* line, raises no error and goes on to the next definition.
C19_RootDispatch ==
    [][(pc = "format" /\ defIdx <= Len(encDefs)) =>
          CASE Resolved.t = "arr" ->
                  pc' = "format" =>
                      /\ allLines' = allLines \o EachInOrder(encDefs[defIdx], Resolved.a)
                      /\ defIdx' = defIdx + 1
            [] Resolved.t = "obj" ->
                  pc' = "format" =>
                      /\ allLines' = allLines \o
                            FormatRecord(encDefs, encDefs[defIdx], Resolved).lines
                      /\ Len(allLines') > Len(allLines)
                      /\ defIdx' = defIdx + 1
            [] OTHER ->
                  /\ pc' = "format"
                  /\ error' = "none"
                  /\ allLines' = allLines
                  /\ defIdx' = defIdx + 1
      ]_vars

\* C19 witness: the second definition's jsonPath "data.kid" was resolved
\* against a value tree that has no "data"; the round added nothing to the
\* lines of the first definition and raised no error.
C19_Witness ==
    /\ node = "JsonToText"
    /\ pc = "format"
    /\ defIdx = 3
    /\ encDefs[2].jsonPath = KidPath
    /\ Prop(inputJson, "data") = Undefined
    /\ allLines # <<>>
    /\ allLines = FormatRoot(encDefs, encDefs[1], inputJson).lines
    /\ error = "none"

\* C20: the round of the loop over the record definitions that meets a
\* definition without a jsonPath adds no line and raises no error.
C20_NoPathNoRootLines ==
    [][(pc = "format" /\ defIdx <= Len(encDefs)
            /\ encDefs[defIdx].jsonPath = <<>>) =>
          /\ allLines' = allLines
          /\ error' = "none"
      ]_vars

\* The lines one after the other with the separator in front of every line
\* but the first.
Separated(ls, sep) ==
    Concat([k \in 1..Len(ls) |-> IF k = 1 THEN ls[k] ELSE sep \o ls[k]])

\* The lines of every record definition, definition by definition in
\* declared order.
LinesInSchemaOrder ==
    Concat([d \in 1..Len(encDefs) |->
               Concat([r \in 1..Len(RootRecords(encDefs[d])) |->
                          DocumentOrder(encDefs[d], RootRecords(encDefs[d])[r])])])

RECURSIVE SumLen(_)
SumLen(seqs) == IF seqs = <<>> THEN 0 ELSE Len(Head(seqs)) + SumLen(Tail(seqs))

\* C21: when an encode run is done its output is one text: the lines of the
\* record definitions, all lines of an earlier definition before all lines of
\* a later one, with the separator between every two lines and neither in
\* front of the first nor behind the last.
C21_JoinedInSchemaOrder ==
    (node = "JsonToText" /\ pc = "done") =>
        /\ allLines = LinesInSchemaOrder
        /\ Len(allOutput) = 1
        /\ allOutput[1] = TextItem(Separated(LinesInSchemaOrder, newLine))
        /\ Len(allOutput[1]["text"].s) =
              SumLen(allLines) + Len(newLine) * Max(0, Len(allLines) - 1)

\* C21 witness: two record definitions have each produced lines; the text
\* starts with the first line of the first, ends with the last line of the
\* second and holds one separator less than lines.
C21_Witness ==
    /\ node = "JsonToText"
    /\ pc = "done"
    /\ Len(encDefs) = 2
    /\ RootRecords(encDefs[1]) # <<>>
    /\ RootRecords(encDefs[2]) # <<>>
    /\ Len(allLines) >= 3
    /\ Len(newLine) = 2
    /\ LET text == allOutput[1]["text"].s
           last == allLines[Len(allLines)]
       IN  /\ IsPrefix(allLines[1], text)
           /\ last = RenderLine(encDefs[2].fields, RootRecords(encDefs[2])[1])
           /\ SubSeq(text, Len(text) - Len(last) + 1, Len(text)) = last
           /\ Len(text) = SumLen(allLines) + 2 * (Len(allLines) - 1)

\* The text of a value as formatRecord's caller sees it: nothing for null
\* and undefined.
Stringified(x) == IF Nullish(x) THEN <<>> ELSE ToStr(x)

\* The segment is the text rendered to the field's width: cut to its first
\* length characters when longer, unchanged when exactly as long, and when
\* shorter filled up to length characters with characters of padChar, in
\* front of the text for padDirection left and behind it otherwise.
RenderedToWidth(seg, text, f) ==
    IF Len(text) > f.length THEN seg = SubSeq(text, 1, f.length)
    ELSE IF Len(text) = f.length THEN seg = text
    ELSE /\ Len(seg) = f.length
         /\ IF f.padDir = "left"
            THEN /\ SubSeq(seg, f.length - Len(text) + 1, f.length) = text
                 /\ \A i \in 1..(f.length - Len(text)) :
                       \E j \in 1..Len(f.padChar) : seg[i] = f.padChar[j]
            ELSE /\ SubSeq(seg, 1, Len(text)) = text
                 /\ \A i \in (Len(text) + 1)..f.length :
                       \E j \in 1..Len(f.padChar) : seg[i] = f.padChar[j]

\* C22: with one record definition of one fixed-width field read from JSON,
\* the line of every record is the record's stringified value rendered to
\* the field's width: cut when longer, padded with padChar on the side of
\* padDirection when shorter, unchanged when exactly as long.
C22_FixedWidthRendering ==
    (node = "JsonToText" /\ ~DefsMissing /\ OneJsonField
        /\ pc = "format" /\ defIdx = 2) =>
        /\ Len(allLines) = Len(RootRecords(encDefs[1]))
        /\ \A k \in 1..Len(allLines) :
              RenderedToWidth(allLines[k],
                              Stringified(Prop(RootRecords(encDefs[1])[k],
                                               encDefs[1].fields[1].jsonKey)),
                              encDefs[1].fields[1])

\* The text a field takes out of the frame's line, before the cast.
RawText(f, field) == Trim(Substr(FrameLine(f), field.start, field.length))

\* The text is no JSON: it is empty, or a number with a leading zero, or it
\* holds a letter and is none of the literals true, false and null.
NoJson(text) ==
    \/ text = <<>>
    \/ Len(text) > 1 /\ Head(text) = "0"
    \/ /\ \E i \in 1..Len(text) : text[i] \notin DigitSet \cup {"-"}
       /\ text \notin {<<"t", "r", "u", "e">>, <<"f", "a", "l", "s", "e">>,
                       <<"n", "u", "l", "l">>}

\* The text is no date: there is not one digit in it.
NoDate(text) == \A i \in 1..Len(text) : text[i] \notin DigitSet

\* The field's cast cannot read the text the field takes out of the line.
Malformed(f, field) ==
    \/ field.outputType = "json" /\ NoJson(RawText(f, field))
    \/ field.outputType = "date" /\ NoDate(RawText(f, field))

\* C23: a json or date field whose text cannot be parsed raises no error and
\* decodes to the raw text, as a string.
C23_MalformedCastPassesThrough ==
    \A f \in Frames :
        \A k \in 1..Len(f.def.fields) :
            Malformed(f, f.def.fields[k]) =>
                /\ error = "none"
                /\ Get(f.json, f.def.fields[k].name)
                      = Str(RawText(f, f.def.fields[k]))

\* C24: a number field whose text is a string of digits decodes to the
\* integer the digits spell, leading zeros or not, zero for "0"; a field
\* whose text is anything else, the empty text of a blank field included,
\* decodes to NaN; no error is raised.
C24_NumberCast ==
    \A f \in Frames :
        \A k \in 1..Len(f.def.fields) :
            f.def.fields[k].outputType = "number" =>
                /\ error = "none"
                /\ Get(f.json, f.def.fields[k].name) =
                      IF AllDigits(RawText(f, f.def.fields[k]))
                      THEN Num(DigitsVal(RawText(f, f.def.fields[k])))
                      ELSE NaN

\* The characters of the line at the 0-based positions start to
\* start + length - 1, as far as the line has them.
CharsAt(line, start, length) ==
    [i \in 1..Max(0, Min(Len(line), start + length) - start) |-> line[start + i]]

\* t is s without the whitespace around it.
IsTrimmed(t, s) ==
    \E a \in 1..(Len(s) + 1) : \E b \in 0..Len(s) :
        /\ t = SubSeq(s, a, b)
        /\ \A i \in 1..Len(s) : (i < a \/ i > b) => s[i] \in Whitespace
        /\ t # <<>> => (t[1] \notin Whitespace /\ t[Len(t)] \notin Whitespace)

\* The last field of the definition that writes the name of field k.
LastNamed(def, k) == \A j \in (k + 1)..Len(def.fields) : def.fields[j].name # def.fields[k].name

\* A child link of the definition attaches its children under the name of
\* field k, in place of the field's value.
Reused(def, k) ==
    \E c \in 1..Len(def.childDefinitions) :
        def.childDefinitions[c].childrenFieldName = def.fields[k].name

\* C25: the record decoded from a line holds, for every fixed string field,
\* the characters of the line at the positions from start to
\* start + length - 1, as far as the line reaches, without the whitespace
\* around them; a range past the end of the line gives the tail or the empty
\* string and no error (the one error a block can end in is that of a child
\* link without a definition, raised before any field is read); and the
\* record carries __recordType, the record type of its definition.
C25_FixedExtraction ==
    \A f \in Frames :
        /\ Get(f.json, "__recordType") = Str(<<f.def.recordType>>)
        /\ error # "none" =>
              /\ InLinks(Top)
              /\ CurLink(Top).childRecordType \notin MapKeys(recordDefs)
        /\ \A k \in 1..Len(f.def.fields) :
              (f.def.fields[k].type = "fixed" /\ f.def.fields[k].outputType = "string"
                  /\ LastNamed(f.def, k) /\ ~Reused(f.def, k)) =>
                  /\ Get(f.json, f.def.fields[k].name).t = "str"
                  /\ IsTrimmed(Get(f.json, f.def.fields[k].name).s,
                               CharsAt(FrameLine(f), f.def.fields[k].start,
                                       f.def.fields[k].length))

\* C25 witness: under a parent, the line "C07" was decoded with the field id
\* at start 1 of length 2 to id "07" tagged "C", and the line "P1", which
\* ends inside that range, to id "1", the tail.
C25_Witness ==
    /\ node = "TextToJson"
    /\ pc = "block"
    /\ Len(stack) = 2
    /\ Top.def.fields = <<TagField, IdField>>
    /\ FrameLine(Top) = <<"P", "1">>
    /\ Top.json = [tag |-> Str(<<"P">>), id |-> Str(<<"1">>),
                   __recordType |-> Str(<<"C">>)]
    /\ stack[1].children =
          <<[tag |-> Str(<<"C">>), id |-> Str(<<"0", "7">>),
             __recordType |-> Str(<<"C">>)]>>
    /\ error = "none"

\* The matcher text is no regular expression: a parenthesis opens in it and
\* none closes.
Uncompilable(src) ==
    /\ \E i \in 1..Len(src) : src[i] = "("
    /\ \A i \in 1..Len(src) : src[i] # ")"

\* The line has the text at the 0-based position off.
OccursAt(text, line, off) ==
    /\ off + Len(text) <= Len(line)
    /\ \A i \in 1..Len(text) : line[off + i] = text[i]

\* What the claim says a matcher text accepts: as a literal prefix when it is
\* no regular expression; anywhere in the line when it is one (the regular
\* expressions of the model are literal texts, some behind a "^").
Classifies(src, line) ==
    IF Uncompilable(src) THEN OccursAt(src, line, 0)
    ELSE IF src # <<>> /\ Head(src) = "^" THEN OccursAt(Tail(src), line, 0)
    ELSE \E off \in 0..Len(line) : OccursAt(src, line, off)

\* The raw definitions, by position, whose matcher text classifies the line.
Classifying(line) ==
    {k \in 1..Len(recordDefsRaw.record) :
        Classifies(recordDefsRaw.record[k].matcher, line)}

\* C26: the main loop decodes the line at its cursor with the first
\* definition whose matcher text classifies it, a text that is no regular
\* expression counting as a literal prefix of the line and one that is as a
\* pattern found anywhere in it; a line no matcher text classifies is passed
\* over; no error is raised for a matcher text.
C26_MatcherFallback ==
    [][(pc = "root" /\ idx < Len(lines)) =>
          /\ error' = "none"
          /\ IF Classifying(lines[idx + 1]) = {}
             THEN stack' = <<>> /\ idx' = idx + 1
             ELSE /\ Len(stack') = 1
                  /\ stack'[1].def.recordType =
                        recordDefsRaw.record[
                            CHOOSE k \in Classifying(lines[idx + 1]) :
                                \A j \in Classifying(lines[idx + 1]) : k <= j
                        ].recordType
      ]_vars

\* C26 witness: the line "C(" is being decoded with the definition whose
\* matcher text is "C(", although the text "(" of an earlier definition
\* occurs in the line, behind its first character; a line with a "7" in its
\* third column was decoded before with the pattern "7".
C26_Witness ==
    /\ node = "TextToJson"
    /\ pc = "block"
    /\ Len(stack) = 1
    /\ FrameLine(stack[1]) = <<"C", "(">>
    /\ recordDefsRaw.record[1].matcher = <<"(">>
    /\ recordDefsRaw.record[3].matcher = <<"C", "(">>
    /\ Uncompilable(recordDefsRaw.record[1].matcher)
    /\ OccursAt(<<"(">>, FrameLine(stack[1]), 1)
    /\ stack[1].def.recordType = recordDefsRaw.record[3].recordType
    /\ Len(parsedItems) = 1
    /\ parsedItems[1]["__recordType"] = Str(<<"S">>)
    /\ lines[1] = <<"C", "0", "7">>
    /\ error = "none"

\* The lines handled so far: decoded by a parseLine call or passed over.
DecodedLines == {decoded[k].line : k \in 1..Len(decoded)}
SkippedLines == {skipped[k] : k \in 1..Len(skipped)}

\* The position of the innermost cursor: that of the innermost parseBlock
\* call, or that of the main loop when no call is active.
Cursor == IF stack = <<>> THEN idx ELSE Top.idx

\* The lines before the cursor are the handled ones, each handled once.
Partitioned ==
    /\ Cursor <= Len(lines)
    /\ DecodedLines \cup SkippedLines = 0..(Cursor - 1)
    /\ Len(decoded) + Len(skipped) = Cursor
    /\ pc = "done" =>
          /\ Cursor = Len(lines)
          /\ Len(decoded) + Len(skipped) = Len(lines)

\* A step handles no line, or it handles the one line at the cursor in one
\* of three ways: the main loop passes over it, no matcher accepting it; the
\* main loop decodes it as the first line of a block; a block decodes it as
\* a child, one level below.
HandlesOne ==
    \/ decoded' = decoded /\ skipped' = skipped
    \/ /\ stack = <<>> /\ stack' = <<>>
       /\ Accepting(lines[idx + 1]) = {}
       /\ skipped' = Append(skipped, idx) /\ decoded' = decoded
    \/ /\ stack = <<>> /\ Len(stack') = 1
       /\ \E rt \in MapKeys(recordDefs) :
             decoded' = Append(decoded, [line |-> idx, recordType |-> rt])
       /\ skipped' = skipped
    \/ /\ stack # <<>> /\ Len(stack') = Len(stack) + 1
       /\ \E rt \in MapKeys(recordDefs) :
             decoded' = Append(decoded, [line |-> Top.idx, recordType |-> rt])
       /\ skipped' = skipped

\* C27: at every moment of a decode run the lines before the cursor are
\* exactly the lines handled so far, each of them once, as a line the main
\* loop passed over, the first line of a root-level block or a line decoded
\* as a child at some depth; when the run is done the cursor is at the end,
\* so the decoded records of all levels and the passed-over lines together
\* are as many as the lines.
C27_LinePartition == [](node = "TextToJson" => Partitioned) /\ [][HandlesOne]_vars

\* C27 witness: a run over three lines is done: the first was passed over,
\* the second started a root-level block and the third was decoded as its
\* child.
C27_Witness ==
    /\ node = "TextToJson"
    /\ pc = "done"
    /\ Len(lines) = 3
    /\ skipped = <<0>>
    /\ Len(decoded) = 2
    /\ decoded[1].line = 1 /\ decoded[2].line = 2
    /\ Len(parsedItems) = 1
    /\ Len(Get(parsedItems[1], "kids").a) = 1

\* Every active parseBlock call was started on a line of the array and its
\* cursor, the index it will return, is behind that line and not behind the
\* end of the array.
CallsInBounds ==
    \A f \in Frames :
        /\ 0 <= f.startIdx /\ f.startIdx < Len(lines)
        /\ f.startIdx + 1 <= f.idx /\ f.idx <= Len(lines)

\* A step of the main loop: the cursor stays within the array; a call is
\* started at the cursor; an iteration that ends, by passing over a line or
\* by a block's return, leaves the cursor further on, at the index the block
\* returned.
RootCursorAdvances ==
    node = "TextToJson" =>
        /\ 0 <= idx' /\ idx' <= Len(lines')
        /\ (pc = "root" /\ pc' = "block") =>
              idx' = idx /\ stack'[1].startIdx = idx /\ idx < Len(lines)
        /\ (pc = "root" /\ pc' = "root") => idx' > idx
        /\ (pc = "block" /\ pc' = "root") =>
              idx' > idx /\ idx' = Top.idx /\ idx' >= stack[1].startIdx + 1
        /\ (pc = "block" /\ Len(stack') = Len(stack) + 1) =>
              stack'[Len(stack')].startIdx = Top.idx /\ Top.idx < Len(lines)
        /\ (pc = "block" /\ pc' = "block" /\ Len(stack') = Len(stack) - 1) =>
              /\ stack'[Len(stack')].idx = Top.idx
              /\ stack'[Len(stack')].idx > stack[Len(stack')].idx

\* C28: every parseBlock call is started on an index of the line array and
\* returns an index behind its line and at most the length of the array; the
\* cursor of the main loop grows with every iteration and never passes the
\* end of the array.
C28_CursorBounds == []CallsInBounds /\ [][RootCursorAdvances]_vars

\* C28 witness: a child block started on the last line is about to return
\* the length of the array to a parent that asked for more children than
\* there are lines.
C28_Witness ==
    /\ node = "TextToJson"
    /\ pc = "block"
    /\ Len(stack) = 2
    /\ ~InLinks(Top)
    /\ Top.startIdx = Len(lines) - 1
    /\ Top.idx = Len(lines)
    /\ Count(stack[1]) = 9
    /\ Len(lines) = 3

\* The highest line decoded so far.
LastDecoded == SetMax(DecodedLines)

\* An earlier child link of the frame has attached its children under the
\* name of the count field of the current link.
CountOverwritten(f) ==
    \E j \in 1..(f.link - 1) :
        /\ f.def.childDefinitions[j].childrenFieldName # ""
        /\ f.def.childDefinitions[j].childrenFieldName = CurLink(f).countField

\* The count of the frame's current link, read from the parent as it stands:
\* from the field decoded out of the parent's line, or from the array of
\* records an earlier link put in its place, which is no number.
StandingCount(f) ==
    IF CountOverwritten(f) THEN 0
    ELSE ParseIntOr0(Get(ParseLine(f.def, FrameLine(f)), CurLink(f).countField))

\* C29: inside a block the child links run in declared order over one
\* cursor: while the current link has had fewer blocks than its count, read
\* from the parent as it stands, and lines remain, its next block starts on
\* the line right behind the last line decoded so far, by whichever link and
\* at whatever depth; otherwise the next link takes over with the cursor
\* where it is, the children of the link just done attached to the parent.
C29_LinksShareCursor ==
    [][(pc = "block" /\ InLinks(Top)
            /\ CurLink(Top).childRecordType \in MapKeys(recordDefs)) =>
          /\ Top.idx = LastDecoded + 1
          /\ IF Top.i < StandingCount(Top) /\ Top.idx < Len(lines)
             THEN /\ Len(stack') = Len(stack) + 1
                  /\ stack'[Len(stack')].startIdx = LastDecoded + 1
                  /\ stack'[Len(stack')].def = Declared(CurLink(Top))
                  /\ stack'[Len(stack)].link = Top.link
             ELSE /\ Len(stack') = Len(stack)
                  /\ stack'[Len(stack)].link = Top.link + 1
                  /\ stack'[Len(stack)].idx = Top.idx
                  /\ stack'[Len(stack)].i = 0
                  /\ CurLink(Top).childrenFieldName # "" =>
                        Len(Get(stack'[Len(stack)].json,
                                CurLink(Top).childrenFieldName).a) = Top.i
      ]_vars

\* C29 witness: of four lines the first is a parent with three child links;
\* the first link took the second line and, as that child's own child, the
\* third; the second link took the fourth line and attached it under the
\* name of the count field; the third link, reading that field, took none.
C29_Witness ==
    /\ node = "TextToJson"
    /\ pc = "block"
    /\ Len(stack) = 1
    /\ Len(lines) = 4
    /\ Len(Top.def.childDefinitions) = 3
    /\ Top.link = 4
    /\ Len(Get(Top.json, "kids").a) = 1
    /\ Len(Get(Get(Top.json, "kids").a[1].o, "subs").a) = 1
    /\ Get(Top.json, "cnt") = Arr(<<Obj(ParseLine(Declared(Top.def.childDefinitions[2]),
                                                  lines[4]))>>)
    /\ Get(Top.json, "last") = Arr(<<>>)
    /\ decoded = <<[line |-> 0, recordType |-> "P"], [line |-> 1, recordType |-> "M"],
                   [line |-> 2, recordType |-> "C"], [line |-> 3, recordType |-> "C"]>>

\* The record types the raw definitions declare.
DeclaredTypes ==
    {recordDefsRaw.record[k].recordType : k \in 1..Len(recordDefsRaw.record)}

\* The items flat mode emits for the text: the items of the main loop, one
\* per root-level block, in decode order.
FlatItems == parsedItems

\* The flat items of one record type, in their order, without the tag.
FlatOfType(rt) ==
    LET OfType(item) == item["__recordType"] = Str(<<rt>>)
        those == SelectSeq(FlatItems, OfType)
    IN  [k \in 1..Len(those) |-> Obj(Rest(those[k]))]

RECURSIVE SumOver(_, _)
\* The sum of the lengths of the arrays under the keys of S.
SumOver(obj, S) ==
    IF S = {} THEN 0
    ELSE LET k == CHOOSE x \in S : TRUE
         IN  Len(obj[k].a) + SumOver(obj, S \ {k})

\* C30: a run that is done has put out, in flat mode, the items of the main
\* loop as they are, and in aggregate mode one object that regroups them: a
\* key for every declared record type and no other, under each key the flat
\* items of that type in their decode order (none for a type without items),
\* so that the arrays together hold as many elements as flat mode has items.
C30_AggregateRegroupsFlat ==
    (node = "TextToJson" /\ pc = "done") =>
        IF aggregate
        THEN /\ Len(allOutput) = 1
             /\ DOMAIN allOutput[1] = DeclaredTypes
             /\ \A rt \in DeclaredTypes : allOutput[1][rt] = Arr(FlatOfType(rt))
             /\ SumOver(allOutput[1], DeclaredTypes) = Len(FlatItems)
        ELSE allOutput = FlatItems

\* C30 witness: an aggregated run over three lines of one record type, two
\* of them different, is done: the array of that type holds the three in
\* line order and the arrays of the two other declared types are empty.
C30_Witness ==
    /\ node = "TextToJson"
    /\ pc = "done"
    /\ aggregate
    /\ Cardinality(DeclaredTypes) = 3
    /\ Len(parsedItems) = 3
    /\ \E rt \in DeclaredTypes :
          /\ Len(allOutput[1][rt].a) = 3
          /\ allOutput[1][rt].a[1] = Obj(Rest(ParseLine(recordDefs[1], lines[1])))
          /\ allOutput[1][rt].a[3] = Obj(Rest(ParseLine(recordDefs[1], lines[3])))
          /\ lines[1] # lines[3]
          /\ \A other \in DeclaredTypes \ {rt} : allOutput[1][other] = Arr(<<>>)

====
